---- MODULE Spec2Model ----
(***************************************************************************)
(* The bets gateway of src/main.go: POST /api/bets (CreateBet) validates   *)
(* the inbound request, calls the match, player and championship services  *)
(* one after the other, forwarding an allowlist of headers, and answers    *)
(* 201 with a Bet or 503 with the map of the three statuses.               *)
(*                                                                         *)
(* A handler runs in its own goroutine; the points where goroutines can    *)
(* interleave are the blocking upstream calls, so the handler is cut into  *)
(* one step per call: CreateBet (validation), match, player, championship, *)
(* Reply (decision and response).                                          *)
(***************************************************************************)
EXTENDS Integers, Sequences, FiniteSets, TLC

VARIABLES
    workload, \* the environment the gateway runs in: the name of one of the Env* below
    pc,       \* pc[r]: position of the handler goroutine of request r
    inbound,  \* inbound[r]: the request as received (header, body)
    frames,   \* frames[s]: the local variables of a CreateBet invocation
    resp,     \* resp[r]: the response written for r
    calls     \* calls[r]: the outbound GETs issued for r, in order, with the answer each got

vars == <<workload, pc, inbound, frames, resp, calls>>

\* ---------------------------------------------------------------- bounds

\* Connections handled concurrently in the concurrent workload.
NumReq == 2
\* Headers (besides Content-Type) an inbound request carries in the header workload.
MaxHdrs == 2

\* ---------------------------------------------------------------- constants

StatusCreated == 201
StatusUnsupportedMediaType == 415
StatusInternalServerError == 500
StatusServiceUnavailable == 503

\* ---------------------------------------------------------------- JSON values

Str(s) == [t |-> "string", s |-> s]
Num(s) == [t |-> "number", s |-> s]
EmptyObj == [k \in {} |-> Str("")]

BodyJson(obj) == [kind |-> "json", val |-> obj]
\* Bytes that are no JSON document.
BodyGarbage == [kind |-> "garbage", val |-> EmptyObj]
\* A body whose read fails before its end (connection dropped mid-body).
BodyTruncated == [kind |-> "truncated", val |-> EmptyObj]

\* encoding/json into a struct field of type string: absent keys leave the
\* zero value.
Field(obj, k) == IF k \in DOMAIN obj THEN obj[k].s ELSE ""

\* json.Decoder.Decode into a struct with string fields `fields`: fails on a
\* body that is not JSON and on a known field holding a non-string; unknown
\* keys are ignored whatever they hold.
decodeStructErr(body, fields) ==
    \/ body.kind # "json"
    \/ \E k \in fields \cap DOMAIN body.val : body.val[k].t # "string"

\* ioutil.ReadAll then json.Unmarshal into map[string]string: fails on a read
\* error, on a body that is not JSON and on ANY key holding a non-string.
decodeStringMapErr(body) ==
    \/ body.kind # "json"
    \/ \E k \in DOMAIN body.val : body.val[k].t # "string"

\* ---------------------------------------------------------------- types

Bet(hs, as, c, m, e) ==
    [HomeTeamScore |-> hs, AwayTeamScore |-> as, Championship |-> c, Match |-> m, Email |-> e]

ZeroBet == Bet("", "", "", "", "")

BetFields == {"homeTeamScore", "awayTeamScore", "championship", "match", "email"}

Match(h, a, c) == [nil |-> FALSE, HomeTeam |-> h, AwayTeam |-> a, Championship |-> c]

\* The nil *Match the failure paths of match return.
NilMatch == [nil |-> TRUE, HomeTeam |-> "", AwayTeam |-> "", Championship |-> ""]

MatchFields == {"homeTeam", "awayTeam", "championship"}

\* strconv.Itoa / the %d verb, for the non-negative numbers the program formats.
Digits == <<"0", "1", "2", "3", "4", "5", "6", "7", "8", "9">>

RECURSIVE Itoa(_)
Itoa(n) == IF n < 10 THEN Digits[n + 1] ELSE Itoa(n \div 10) \o Digits[(n % 10) + 1]

\* Variant of MatchString: the teams in the other order.
MatchStringSwapped(m) == m.AwayTeam \o " " \o Itoa(2) \o "x" \o Itoa(3) \o " " \o m.HomeTeam

\* fmt.Sprintf("%s %dx%d %s", h, 2, 3, a)
MatchString(m) == m.HomeTeam \o " " \o Itoa(2) \o "x" \o Itoa(3) \o " " \o m.AwayTeam

is2xx(status) == status >= 200 /\ status < 300

\* Variant of hasError: only the last error decides.
hasErrorLast(errs) == Len(errs) > 0 /\ errs[Len(errs)]

\* errs[i] is TRUE for a non-nil error.
hasError(errs) == \E i \in DOMAIN errs : errs[i]

\* ---------------------------------------------------------------- headers

\* A header (http.Header) is a function from canonical keys to the list of
\* values received for each. The allowlist, as the program spells it:
incomingHeaders ==
    << "Authorization", "x-version", "x-request-id", "x-b3-traceid", "x-b3-spanid",
       "x-b3-parentspanid", "x-b3-sampled", "x-b3-flags", "x-ot-span-context" >>

\* textproto.CanonicalMIMEHeaderKey on the keys the program names; the keys of
\* a received header are canonical already.
CanonicalKeys ==
    [k \in {"x-version", "x-request-id", "x-b3-traceid", "x-b3-spanid", "x-b3-parentspanid",
            "x-b3-sampled", "x-b3-flags", "x-ot-span-context"} |->
        CASE k = "x-version" -> "X-Version"
          [] k = "x-request-id" -> "X-Request-Id"
          [] k = "x-b3-traceid" -> "X-B3-Traceid"
          [] k = "x-b3-spanid" -> "X-B3-Spanid"
          [] k = "x-b3-parentspanid" -> "X-B3-Parentspanid"
          [] k = "x-b3-sampled" -> "X-B3-Sampled"
          [] k = "x-b3-flags" -> "X-B3-Flags"
          [] k = "x-ot-span-context" -> "X-Ot-Span-Context"]

Canonical(k) == IF k \in DOMAIN CanonicalKeys THEN CanonicalKeys[k] ELSE k

EmptyHeader == [k \in {} |-> <<"">>]

\* Header.Get: the first value of the canonical key, "" when there is none.
Get(h, key) ==
    LET k == Canonical(key)
    IN  IF k \in DOMAIN h /\ Len(h[k]) > 0 THEN h[k][1] ELSE ""

\* Header.Set: the key's values become the single value v.
Set(h, key, v) ==
    LET k == Canonical(key)
    IN  [x \in DOMAIN h \cup {k} |-> IF x = k THEN <<v>> ELSE h[x]]

\* Variant of forwardHeaders: every inbound header is copied.
forwardHeadersAll(in, out) == [x \in DOMAIN in \cup DOMAIN out |-> IF x \in DOMAIN in THEN in[x] ELSE out[x]]

RECURSIVE forwardFrom(_, _, _)
forwardFrom(i, in, out) ==
    IF i > Len(incomingHeaders) THEN out
    ELSE LET th == incomingHeaders[i]
             h == Get(in, th)
         IN  forwardFrom(i + 1, in, IF h # "" THEN Set(out, th, h) ELSE out)

\* forwardHeaders(ctx, r): in is ctx.Request().Header, the result r.Header.
forwardHeaders(in, out) == forwardFrom(1, in, out)

\* ---------------------------------------------------------------- upstream calls

\* The environment keys naming the three endpoints.
MATCH_SVC == "MATCH_SVC"
PLAYER_SVC == "PLAYER_SVC"
CHAMPIONSHIP_SVC == "CHAMPIONSHIP_SVC"

Services == {MATCH_SVC, PLAYER_SVC, CHAMPIONSHIP_SVC}

\* What client.Do can come back with: an error (no response), or a response
\* with a status and a body.
Transport == [kind |-> "transport", status |-> 0, body |-> BodyGarbage]
Response(status, body) == [kind |-> "response", status |-> status, body |-> body]

Result(data, status, err) == [data |-> data, status |-> status, err |-> err]

\* match, after client.Do returned ans: (*Match, int, error).
matchResult(ans) ==
    IF ans.kind = "transport" THEN Result(NilMatch, 0, TRUE)
    ELSE IF ~is2xx(ans.status) THEN Result(NilMatch, ans.status, TRUE)
    ELSE IF decodeStructErr(ans.body, MatchFields) THEN Result(NilMatch, 0, TRUE)
    ELSE Result(Match(Field(ans.body.val, "homeTeam"), Field(ans.body.val, "awayTeam"),
                      Field(ans.body.val, "championship")),
                ans.status, FALSE)

\* player and championship, after client.Do returned ans: (string, int, error),
\* the string being data[key].
stringResult(ans, key) ==
    IF ans.kind = "transport" THEN Result("", 0, TRUE)
    ELSE IF ~is2xx(ans.status) THEN Result("", ans.status, TRUE)
    ELSE IF decodeStringMapErr(ans.body) THEN Result("", ans.status, TRUE)
    ELSE Result(Field(ans.body.val, key), ans.status, FALSE)

playerResult(ans) == stringResult(ans, "email")

championshipResult(ans) == stringResult(ans, "title")

Request(header, body) == [header |-> header, body |-> body]

NoRequest == Request(EmptyHeader, BodyGarbage)

\* ---------------------------------------------------------------- environments

Hdr(k, v) == k :> <<v>>

ContentTypeJson == Hdr("Content-Type", "application/json")

\* The keys a client may send: the canonical forms of the allowlist and two
\* headers outside it.
ClientKeys ==
    { "Authorization", "X-Version", "X-Request-Id", "X-B3-Traceid", "X-B3-Spanid",
      "X-B3-Parentspanid", "X-B3-Sampled", "X-B3-Flags", "X-Ot-Span-Context",
      "Cookie", "X-Forwarded-For" }

\* A header line without value, one value, and a header sent on two lines.
ClientValues == { <<"">>, <<"a">>, <<"b", "c">> }

\* The headers of at most n keys.
HeadersUpTo(n) ==
    UNION { [S -> ClientValues] : S \in { T \in SUBSET ClientKeys : Cardinality(T) <= n } }

SubmittedBet ==
    BodyJson(("homeTeamScore" :> Str("9")) @@ ("awayTeamScore" :> Str("8"))
             @@ ("championship" :> Str("Cup")) @@ ("match" :> Str("X 1x1 Y"))
             @@ ("email" :> Str("client@c.com")))

MatchAB == BodyJson(("homeTeam" :> Str("A")) @@ ("awayTeam" :> Str("B")))

\* A match with a championship of its own and numeric scores.
MatchScored ==
    BodyJson(("homeTeam" :> Str("C")) @@ ("awayTeam" :> Str("D"))
             @@ ("championship" :> Str("Other")) @@ ("homeScore" :> Num("7"))
             @@ ("awayScore" :> Num("1")))

PlayerXY == BodyJson("email" :> Str("x@y.com"))

TitleLeague == BodyJson("title" :> Str("League"))

AnswersOf(non2xx, ok2xx, bodies) ==
    {Transport} \cup { Response(st, BodyGarbage) : st \in non2xx }
        \cup { Response(st, b) : st \in ok2xx, b \in bodies }

\* One connection; every kind of request and of upstream answer.
EnvSingle ==
    [ conns |-> {1},
      requests |->
        { Request(h, b) :
            h \in { ContentTypeJson,
                    ContentTypeJson @@ Hdr("Authorization", "Bearer t"),
                    Hdr("Content-Type", "text/plain"),
                    Hdr("Content-Type", "application/json; charset=utf-8"),
                    "Content-Type" :> <<"text/plain", "application/json">>,
                    Hdr("Accept", "application/json") },
            b \in { BodyJson(EmptyObj), SubmittedBet, BodyGarbage, BodyTruncated,
                    BodyJson("email" :> Num("5")),
                    BodyJson(("email" :> Str("q@c.com")) @@ ("stake" :> Num("10"))) } },
      answers |->
        (MATCH_SVC :> AnswersOf({300, 500}, {200, 201},
            { BodyGarbage, BodyTruncated, BodyJson(EmptyObj), MatchAB, MatchScored,
              BodyJson(("homeTeam" :> Num("1")) @@ ("awayTeam" :> Str("B"))) }))
        @@ (PLAYER_SVC :> AnswersOf({404, 500}, {200, 201},
            { BodyGarbage, BodyTruncated, BodyJson(EmptyObj), PlayerXY,
              BodyJson(("email" :> Str("z@y.com")) @@ ("name" :> Str("Zed"))),
              BodyJson(("email" :> Str("x@y.com")) @@ ("age" :> Num("30"))) }))
        @@ (CHAMPIONSHIP_SVC :> AnswersOf({404, 503}, {200, 201},
            { BodyGarbage, BodyTruncated, BodyJson(EmptyObj), TitleLeague,
              BodyJson(("title" :> Str("Cup")) @@ ("email" :> Str("org@l.com"))),
              BodyJson("title" :> Num("1")) })) ]

\* One connection; requests that differ in their headers.
EnvHeaders ==
    [ conns |-> {1},
      requests |-> { Request(h @@ ContentTypeJson, BodyJson(EmptyObj)) : h \in HeadersUpTo(MaxHdrs) },
      answers |->
        (MATCH_SVC :> {Response(500, BodyGarbage), Response(200, MatchAB)})
        @@ (PLAYER_SVC :> {Transport, Response(200, PlayerXY)})
        @@ (CHAMPIONSHIP_SVC :> {Response(404, BodyGarbage), Response(200, TitleLeague)}) ]

\* NumReq connections handled at the same time.
EnvConcurrent ==
    [ conns |-> 1..NumReq,
      requests |->
        { Request(ContentTypeJson, BodyJson(EmptyObj)),
          Request(ContentTypeJson, SubmittedBet),
          Request(ContentTypeJson, BodyGarbage),
          Request(Hdr("Content-Type", "text/plain"), BodyJson(EmptyObj)) },
      answers |->
        (MATCH_SVC :> {Response(500, BodyGarbage), Response(200, MatchAB)})
        @@ (PLAYER_SVC :> {Transport, Response(200, PlayerXY)})
        @@ (CHAMPIONSHIP_SVC :> {Response(200, BodyGarbage), Response(200, TitleLeague)}) ]

\* The environment of the current behaviour.
Env ==
    CASE workload = "single" -> EnvSingle
      [] workload = "headers" -> EnvHeaders
      [] workload = "concurrent" -> EnvConcurrent

\* The requests clients send and the answers client.Do gets from svc.
Requests == Env.requests
Answers(svc) == Env.answers[svc]

\* ---------------------------------------------------------------- the handler

\* The locals of CreateBet before any assignment.
ZeroFrame ==
    [ bet |-> ZeroBet,
      match |-> NilMatch, matchStatus |-> 0, matchErr |-> FALSE,
      player |-> "", playerStatus |-> 0, playerErr |-> FALSE,
      champ |-> "", champStatus |-> 0, champErr |-> FALSE ]

\* Variant of Slot: the locals are package-level variables all requests share.
SlotShared(r) == 1

\* Where the locals of request r's CreateBet invocation live: its own frame.
Slot(r) == r

\* Variant of unsupportedMediaType: a request without Content-Type passes.
unsupportedMediaTypeIfSet(header) ==
    Get(header, "Content-Type") # "" /\ Get(header, "Content-Type") # "application/json"

\* The content-type check of CreateBet.
unsupportedMediaType(header) == Get(header, "Content-Type") # "application/json"

\* Variant of DecodeBet: the decode error is dropped.
DecodeBetLenient(body) ==
    [ err |-> FALSE,
      bet |-> IF body.kind = "json"
              THEN Bet(Field(body.val, "homeTeamScore"), Field(body.val, "awayTeamScore"),
                       Field(body.val, "championship"), Field(body.val, "match"),
                       Field(body.val, "email"))
              ELSE ZeroBet ]

\* json.NewDecoder(Body).Decode(bet)
DecodeBet(body) ==
    [ err |-> decodeStructErr(body, BetFields),
      bet |-> IF body.kind = "json"
              THEN Bet(Field(body.val, "homeTeamScore"), Field(body.val, "awayTeamScore"),
                       Field(body.val, "championship"), Field(body.val, "match"),
                       Field(body.val, "email"))
              ELSE ZeroBet ]

\* Variant of after: a failed call goes straight to the response.
afterFailFast(stage, err) ==
    IF err THEN "reply"
    ELSE CASE stage = "match" -> "player"
           [] stage = "player" -> "championship"
           [] stage = "championship" -> "reply"

\* The statement that follows the call of `stage`; the error the call returned
\* is not looked at before the three calls are made.
after(stage, err) ==
    CASE stage = "match" -> "player"
      [] stage = "player" -> "championship"
      [] stage = "championship" -> "reply"

\* Variant of ErrorsOf: the player and match statuses under each other's key.
ErrorsOfSwapped(f) ==
    ("players" :> f.matchStatus) @@ ("matches" :> f.playerStatus)
        @@ ("championships" :> f.champStatus)

\* The Errors map of the 503 response.
ErrorsOf(f) ==
    ("players" :> f.playerStatus) @@ ("matches" :> f.matchStatus)
        @@ ("championships" :> f.champStatus)

\* Variant of BetOf: the email the client submitted is kept when there is one.
BetOfEcho(f) ==
    Bet(Itoa(2), Itoa(3), f.champ, MatchString(f.match),
        IF f.bet.Email # "" THEN f.bet.Email ELSE f.player)

\* The Bet of the 201 response.
BetOf(f) == Bet(Itoa(2), Itoa(3), f.champ, MatchString(f.match), f.player)

NoErrors == [k \in {} |-> 0]

NoResponse == [status |-> 0, kind |-> "none", bet |-> ZeroBet, errors |-> NoErrors]

\* echo.NewHTTPError(code, ...) returned by the handler.
HTTPError(code) == [status |-> code, kind |-> "httperror", bet |-> ZeroBet, errors |-> NoErrors]

\* c.JSON(code, &Bet{...}) and c.JSON(code, &Error{...})
JSONBet(code, b) == [status |-> code, kind |-> "bet", bet |-> b, errors |-> NoErrors]
JSONError(code, e) == [status |-> code, kind |-> "errors", bet |-> ZeroBet, errors |-> e]

\* CreateBet up to the first upstream call: content type, body decoding.
CreateBet(r) ==
    /\ r \in DOMAIN pc
    /\ pc[r] = "idle"
    /\ \E req \in Requests :
        /\ inbound' = [inbound EXCEPT ![r] = req]
        /\ IF unsupportedMediaType(req.header)
           THEN /\ resp' = [resp EXCEPT ![r] = HTTPError(StatusUnsupportedMediaType)]
                /\ pc' = [pc EXCEPT ![r] = "done"]
                /\ UNCHANGED frames
           ELSE IF DecodeBet(req.body).err
           THEN /\ resp' = [resp EXCEPT ![r] = HTTPError(StatusInternalServerError)]
                /\ pc' = [pc EXCEPT ![r] = "done"]
                /\ UNCHANGED frames
           ELSE /\ frames' = [frames EXCEPT ![Slot(r)] =
                                 [ZeroFrame EXCEPT !.bet = DecodeBet(req.body).bet]]
                /\ pc' = [pc EXCEPT ![r] = "match"]
                /\ UNCHANGED resp
    /\ UNCHANGED <<workload, calls>>

\* http.NewRequest("GET", os.Getenv(svc), nil); forwardHeaders(ctx, req); client.Do(req)
Do(r, svc, ans) ==
    calls' = [calls EXCEPT ![r] = Append(@,
                [svc |-> svc, header |-> forwardHeaders(inbound[r].header, EmptyHeader),
                 answer |-> ans])]

match(r) ==
    /\ r \in DOMAIN pc
    /\ pc[r] = "match"
    /\ \E ans \in Answers(MATCH_SVC) :
        LET res == matchResult(ans)
        IN  /\ Do(r, MATCH_SVC, ans)
            /\ frames' = [frames EXCEPT ![Slot(r)].match = res.data,
                                        ![Slot(r)].matchStatus = res.status,
                                        ![Slot(r)].matchErr = res.err]
            /\ pc' = [pc EXCEPT ![r] = after("match", res.err)]
    /\ UNCHANGED <<workload, inbound, resp>>

player(r) ==
    /\ r \in DOMAIN pc
    /\ pc[r] = "player"
    /\ \E ans \in Answers(PLAYER_SVC) :
        LET res == playerResult(ans)
        IN  /\ Do(r, PLAYER_SVC, ans)
            /\ frames' = [frames EXCEPT ![Slot(r)].player = res.data,
                                        ![Slot(r)].playerStatus = res.status,
                                        ![Slot(r)].playerErr = res.err]
            /\ pc' = [pc EXCEPT ![r] = after("player", res.err)]
    /\ UNCHANGED <<workload, inbound, resp>>

championship(r) ==
    /\ r \in DOMAIN pc
    /\ pc[r] = "championship"
    /\ \E ans \in Answers(CHAMPIONSHIP_SVC) :
        LET res == championshipResult(ans)
        IN  /\ Do(r, CHAMPIONSHIP_SVC, ans)
            /\ frames' = [frames EXCEPT ![Slot(r)].champ = res.data,
                                        ![Slot(r)].champStatus = res.status,
                                        ![Slot(r)].champErr = res.err]
            /\ pc' = [pc EXCEPT ![r] = after("championship", res.err)]
    /\ UNCHANGED <<workload, inbound, resp>>

\* CreateBet after the three calls: the decision and the response.
Reply(r) ==
    /\ r \in DOMAIN pc
    /\ pc[r] = "reply"
    /\ LET f == frames[Slot(r)]
       IN  resp' = [resp EXCEPT ![r] =
                IF hasError(<<f.matchErr, f.playerErr, f.champErr>>)
                THEN JSONError(StatusServiceUnavailable, ErrorsOf(f))
                ELSE JSONBet(StatusCreated, BetOf(f))]
    /\ pc' = [pc EXCEPT ![r] = "done"]
    /\ UNCHANGED <<workload, inbound, frames, calls>>

\* One goroutine per connection; any of them takes its next step.
Next ==
    \E r \in 1..NumReq :
        \/ CreateBet(r)
        \/ match(r)
        \/ player(r)
        \/ championship(r)
        \/ Reply(r)

\* No request received yet on any connection.
InitIn(w) ==
    /\ workload = w
    /\ pc = [r \in Env.conns |-> "idle"]
    /\ inbound = [r \in Env.conns |-> NoRequest]
    /\ frames = [r \in Env.conns |-> ZeroFrame]
    /\ resp = [r \in Env.conns |-> NoResponse]
    /\ calls = [r \in Env.conns |-> << >>]

Init == InitIn("single")

InitHeaders == InitIn("headers")

InitConcurrent == InitIn("concurrent")

Spec == Init /\ [][Next]_vars

SpecHeaders == InitHeaders /\ [][Next]_vars

SpecConcurrent == InitConcurrent /\ [][Next]_vars

\* ---------------------------------------------------------------- properties

Conns == DOMAIN pc

Done(r) == pc[r] = "done"

\* The request r received has Content-Type application/json.
JsonContentType(r) == Get(inbound[r].header, "Content-Type") = "application/json"

\* The body of r decodes into the submission shape.
BodyDecodes(r) == ~decodeStructErr(inbound[r].body, BetFields)

\* r was received and passed both validations.
Validated(r) == pc[r] # "idle" /\ JsonContentType(r) /\ BodyDecodes(r)

Called(r, svc) == \E i \in DOMAIN calls[r] : calls[r][i].svc = svc

\* What the upstream answered to r's call of svc.
Ans(r, svc) == calls[r][CHOOSE i \in DOMAIN calls[r] : calls[r][i].svc = svc].answer

CallsTo(r, svc) == Cardinality({ i \in DOMAIN calls[r] : calls[r][i].svc = svc })

Answered2xx(a) == a.kind = "response" /\ a.status \in 200..299

\* The answer is a 2xx whose body the call of svc decodes.
Succeeded(svc, a) ==
    /\ Answered2xx(a)
    /\ IF svc = MATCH_SVC THEN ~decodeStructErr(a.body, MatchFields)
                          ELSE ~decodeStringMapErr(a.body)

\* The key of the errors map that stands for svc.
ErrorKey(svc) ==
    CASE svc = MATCH_SVC -> "matches"
      [] svc = PLAYER_SVC -> "players"
      [] svc = CHAMPIONSHIP_SVC -> "championships"

\* C1: a validated request one of whose dependencies answers non-2xx or fails
\* in transport is answered 503 with an errors map whose keys are exactly
\* players, matches and championships.
C1_AnyFailureGives503 ==
    \A r \in Conns :
        (Done(r) /\ Validated(r) /\ \E svc \in Services : Called(r, svc) /\ ~Answered2xx(Ans(r, svc)))
        => /\ resp[r].status = 503
           /\ resp[r].kind = "errors"
           /\ DOMAIN resp[r].errors = {"players", "matches", "championships"}

C1_Witness ==
    \E r \in Conns :
        /\ Done(r) /\ Validated(r)
        /\ Called(r, MATCH_SVC) /\ Ans(r, MATCH_SVC).kind = "transport"
        /\ Called(r, PLAYER_SVC) /\ Succeeded(PLAYER_SVC, Ans(r, PLAYER_SVC))
        /\ Called(r, CHAMPIONSHIP_SVC) /\ Succeeded(CHAMPIONSHIP_SVC, Ans(r, CHAMPIONSHIP_SVC))
        /\ resp[r].status = 503

AllSucceeded(r) == \A svc \in Services : Called(r, svc) /\ Succeeded(svc, Ans(r, svc))

\* C2: a validated request whose three dependencies answer 2xx with decodable
\* bodies is answered 201 with the Bet made of "<homeTeam> 2x3 <awayTeam>",
\* scores "2" and "3", the championship's title and the player's email, and
\* of nothing else.
C2_SuccessGivesBet ==
    \A r \in Conns :
        (Done(r) /\ Validated(r) /\ AllSucceeded(r))
        => /\ resp[r].status = 201
           /\ resp[r].kind = "bet"
           /\ resp[r].bet =
                [ HomeTeamScore |-> "2", AwayTeamScore |-> "3",
                  Championship |-> Field(Ans(r, CHAMPIONSHIP_SVC).body.val, "title"),
                  Match |-> Field(Ans(r, MATCH_SVC).body.val, "homeTeam") \o " 2x3 "
                                \o Field(Ans(r, MATCH_SVC).body.val, "awayTeam"),
                  Email |-> Field(Ans(r, PLAYER_SVC).body.val, "email") ]

C2_Witness ==
    \E r \in Conns :
        /\ Done(r) /\ Validated(r) /\ AllSucceeded(r)
        /\ Ans(r, MATCH_SVC).body = MatchScored
        /\ inbound[r].body = SubmittedBet
        /\ resp[r].bet.Match = "C 2x3 D"
        /\ resp[r].bet.Championship = "Cup"

\* C3: a request whose Content-Type is not application/json is answered 415
\* and no outbound call is ever issued for it.
C3_WrongContentTypeGives415 ==
    \A r \in Conns :
        (pc[r] # "idle" /\ ~JsonContentType(r))
        => Done(r) /\ resp[r].status = 415 /\ calls[r] = << >>

C3_Witness ==
    \E r \in Conns :
        /\ Done(r) /\ resp[r].status = 415
        /\ Get(inbound[r].header, "Content-Type") = "application/json; charset=utf-8"
        /\ BodyDecodes(r)

\* The canonical keys of the allowlist, as a received header spells them.
Allowlist ==
    { "Authorization", "X-Version", "X-Request-Id", "X-B3-Traceid", "X-B3-Spanid",
      "X-B3-Parentspanid", "X-B3-Sampled", "X-B3-Flags", "X-Ot-Span-Context" }

\* The value of key k in header h, as Header.Get reads it: its first value.
Value(h, k) == IF k \in DOMAIN h THEN h[k][1] ELSE ""

\* C4: on every outbound request, an allowlist header whose inbound value is
\* non-empty carries that value, an allowlist header absent or empty inbound
\* is not set, and no header outside the allowlist is set.
C4_HeaderForwarding ==
    \A r \in Conns : \A i \in DOMAIN calls[r] :
        LET in == inbound[r].header
            out == calls[r][i].header
        IN  /\ \A k \in Allowlist :
                IF Value(in, k) # "" THEN k \in DOMAIN out /\ out[k] = <<Value(in, k)>>
                                     ELSE k \notin DOMAIN out
            /\ DOMAIN out \subseteq Allowlist

\* Three calls made for a request that carries a forwarded header sent on two
\* lines, an allowlist header without value and a header outside the allowlist.
C4_Witness ==
    \E r \in Conns :
        /\ Len(calls[r]) = 3
        /\ inbound[r].header["Content-Type"] = <<"application/json">>
        /\ \E k1, k2 \in Allowlist :
            /\ k1 \in DOMAIN inbound[r].header /\ inbound[r].header[k1] = <<"b", "c">>
            /\ k2 \in DOMAIN inbound[r].header /\ inbound[r].header[k2] = <<"">>
            /\ \A i \in 1..3 : calls[r][i].header = (k1 :> <<"b">>)

\* The answer is a 2xx whose body is no JSON document.
UndecodableJson(a) == Answered2xx(a) /\ a.body.kind # "json"

\* C5: a dependency that answers 2xx with a body that is no JSON makes the
\* request fail with 503 and its entry of the errors map 0, for each of the
\* three dependencies.
C5_UndecodableBodyGivesZero ==
    \A r \in Conns : \A svc \in Services :
        (Done(r) /\ Validated(r) /\ Called(r, svc) /\ UndecodableJson(Ans(r, svc)))
        => /\ resp[r].status = 503
           /\ resp[r].kind = "errors"
           /\ resp[r].errors[ErrorKey(svc)] = 0

\* C6: in a 503 response each dependency's entry is 0 when its call failed in
\* transport, the upstream's status when it answered non-2xx, and its 2xx
\* status when it succeeded itself.
C6_ErrorsEntryPerDependency ==
    \A r \in Conns :
        (Done(r) /\ resp[r].status = 503)
        => \A svc \in Services :
            /\ Called(r, svc)
            /\ LET a == Ans(r, svc)
                   e == resp[r].errors[ErrorKey(svc)]
               IN  /\ a.kind = "transport" => e = 0
                   /\ (a.kind = "response" /\ ~Answered2xx(a)) => e = a.status
                   /\ Succeeded(svc, a) => e = a.status

C6_Witness ==
    \E r \in Conns :
        /\ Done(r) /\ Len(calls[r]) = 3
        /\ Ans(r, MATCH_SVC) = Response(500, BodyGarbage)
        /\ Ans(r, PLAYER_SVC) = Response(200, PlayerXY)
        /\ Ans(r, CHAMPIONSHIP_SVC) = Response(200, TitleLeague)
        /\ resp[r].status = 503
        /\ resp[r].errors = ("players" :> 200) @@ ("matches" :> 500) @@ ("championships" :> 200)

C8_OneCallPerUpstream ==
    \A r \in Conns :
        /\ \A svc \in Services : CallsTo(r, svc) <= 1
        /\ (Done(r) /\ Validated(r))
            => [i \in DOMAIN calls[r] |-> calls[r][i].svc] = <<MATCH_SVC, PLAYER_SVC, CHAMPIONSHIP_SVC>>

C8_Witness ==
    \E r \in Conns :
        /\ Done(r) /\ Validated(r)
        /\ Len(calls[r]) = 3
        /\ calls[r][1].answer.kind = "transport"
        /\ calls[r][2].answer = Response(500, BodyGarbage)
        /\ CallsTo(r, CHAMPIONSHIP_SVC) = 1

\* The response the request r and the answers to r's own calls determine.
OwnOutcome(r) ==
    IF ~JsonContentType(r) THEN HTTPError(415)
    ELSE IF ~BodyDecodes(r) THEN HTTPError(500)
    ELSE LET m == matchResult(Ans(r, MATCH_SVC))
             p == playerResult(Ans(r, PLAYER_SVC))
             c == championshipResult(Ans(r, CHAMPIONSHIP_SVC))
         IN  IF m.err \/ p.err \/ c.err
             THEN JSONError(503, ("players" :> p.status) @@ ("matches" :> m.status)
                                   @@ ("championships" :> c.status))
             ELSE JSONBet(201, Bet("2", "3", c.data, m.data.HomeTeam \o " 2x3 " \o m.data.AwayTeam,
                                   p.data))

\* C9: with requests handled concurrently, the response of each is the one
\* its own headers, body and upstream answers determine.
C9_ResponseFromOwnCalls ==
    \A r \in Conns : Done(r) => resp[r] = OwnOutcome(r)

C9_Witness ==
    \E r1, r2 \in Conns :
        /\ Done(r1) /\ Done(r2)
        /\ resp[r1].status = 201
        /\ resp[r2].status = 503
        /\ Ans(r2, MATCH_SVC).status = 500
        /\ Ans(r2, PLAYER_SVC).kind = "transport"

SameAnswers(r1, r2) ==
    \A svc \in Services : Called(r1, svc) /\ Called(r2, svc) /\ Ans(r1, svc) = Ans(r2, svc)

\* C10: two validated requests whose upstream calls got the same answers get
\* the same response whatever their bodies hold, and the returned Bet's
\* email and scores are the player's email and "2" and "3".
C10_BodyNeverInfluencesResponse ==
    \A r1, r2 \in Conns :
        (Done(r1) /\ Done(r2) /\ Validated(r1) /\ Validated(r2) /\ SameAnswers(r1, r2))
        => /\ resp[r1] = resp[r2]
           /\ resp[r1].status = 201 =>
                /\ resp[r1].bet.Email = Field(Ans(r1, PLAYER_SVC).body.val, "email")
                /\ resp[r1].bet.HomeTeamScore = "2"
                /\ resp[r1].bet.AwayTeamScore = "3"

C10_Witness ==
    \E r1, r2 \in Conns :
        /\ Done(r1) /\ Done(r2) /\ SameAnswers(r1, r2)
        /\ inbound[r1].body = SubmittedBet
        /\ inbound[r2].body = BodyJson(EmptyObj)
        /\ resp[r1].status = 201
        /\ resp[r1].bet.Email = "x@y.com"

====
